---- MODULE Spec2Model ----
(***************************************************************************)
(* Keyword classifier (src/pages/1_app.py): one run of the Streamlit       *)
(* script.  The dictionary text is parsed (parse_dictionaries), the        *)
(* uploaded CSV is read, the text column is looked up and every row is     *)
(* classified (classify) in a loop that appends one FlagSet per row.       *)
(*                                                                         *)
(* Text is a sequence of one-character strings.  A Python value is a       *)
(* tagged record [kind, val]; a Python dict is a sequence of <<key,        *)
(* value>> pairs (insertion order) with distinct keys.                     *)
(***************************************************************************)
EXTENDS Integers, Sequences, FiniteSets, TLC

VARIABLES pc, dict_json, uploaded_file, statement_col, user_dictionaries,
          df, flags, idx, my_bar, messages

vars == <<pc, dict_json, uploaded_file, statement_col, user_dictionaries,
          df, flags, idx, my_bar, messages>>

(***************************************************************************)
(* Bounds of the enumerated inputs.                                        *)
(***************************************************************************)
MaxTextLen == 3
MaxPhraseLen == 2
MaxRows == 3
MaxItems == 2

(***************************************************************************)
(* Characters.                                                             *)
(***************************************************************************)
UpperChars ==
  <<"A","B","C","D","E","F","G","H","I","J","K","L","M",
    "N","O","P","Q","R","S","T","U","V","W","X","Y","Z">>

LowerChars ==
  <<"a","b","c","d","e","f","g","h","i","j","k","l","m",
    "n","o","p","q","r","s","t","u","v","w","x","y","z">>

DigitChars == <<"0","1","2","3","4","5","6","7","8","9">>

Range(s) == { s[i] : i \in 1..Len(s) }

\* \w of a str pattern: alphanumerics and the underscore
WordChars == Range(UpperChars) \cup Range(LowerChars) \cup Range(DigitChars) \cup {"_"}

IsWordChar(c) == c \in WordChars

char_lower(c) ==
  IF \E i \in 1..26 : UpperChars[i] = c
  THEN LowerChars[CHOOSE i \in 1..26 : UpperChars[i] = c]
  ELSE c

\* str.lower()
str_lower(s) == [i \in 1..Len(s) |-> char_lower(s[i])]

(***************************************************************************)
(* Python values and str().                                                *)
(***************************************************************************)
PyStr(s) == [kind |-> "str", val |-> s]
PyInt(n) == [kind |-> "int", val |-> n]
PyBool(b) == [kind |-> "bool", val |-> b]
PyNone == [kind |-> "none", val |-> 0]
PyNaN == [kind |-> "float", val |-> "nan"]
PyList(items) == [kind |-> "list", val |-> items]
PyDict(pairs) == [kind |-> "dict", val |-> pairs]
\* a dictionary text that json.loads cannot parse
JsonInvalid == [kind |-> "invalid", val |-> 0]

RECURSIVE int_str(_)
int_str(n) ==
  IF n < 10 THEN <<DigitChars[n + 1]>>
  ELSE int_str(n \div 10) \o <<DigitChars[(n % 10) + 1]>>

\* str(x) of a scalar
py_str(v) ==
  CASE v.kind = "str" -> v.val
    [] v.kind = "int" -> int_str(v.val)
    [] v.kind = "bool" -> IF v.val THEN <<"T","r","u","e">> ELSE <<"F","a","l","s","e">>
    [] v.kind = "none" -> <<"N","o","n","e">>
    [] v.kind = "float" -> <<"n","a","n">>

(***************************************************************************)
(* The re module, for the patterns classify can build: a pattern is text   *)
(* in which a backslash makes the next character literal (\b is the word   *)
(* boundary), "." is any character but a newline, parentheses group, and   *)
(* every other character of the model's alphabet stands for itself.        *)
(***************************************************************************)
\* re.escape: the characters it puts a backslash before
SpecialChars ==
  {"(", ")", "[", "]", "{", "}", "?", "*", "+", "-", "|", "^", "$",
   "\\", ".", "&", "~", "#", " ", "\t", "\n", "\r"}

\* the phrase put into the pattern as it is
re_escape_none(p) == p

RECURSIVE re_escape(_)
re_escape(p) ==
  IF p = <<>> THEN <<>>
  ELSE (IF p[1] \in SpecialChars THEN <<"\\", p[1]>> ELSE <<p[1]>>)
       \o re_escape(Tail(p))

\* _word.format(x) with _word = r"\b{}\b"
word_format(x) == <<"\\", "b">> \o x \o <<"\\", "b">>

TokBoundary == [kind |-> "boundary", ch |-> ""]
TokAny == [kind |-> "any", ch |-> ""]
TokError == [kind |-> "error", ch |-> ""]
TokLiteral(c) == [kind |-> "literal", ch |-> c]

\* the pattern parser: the tokens of pat from position i on, inside depth
\* open groups; an error token where re.compile raises re.error
RECURSIVE sre_parse(_, _, _)
sre_parse(pat, i, depth) ==
  IF i > Len(pat) THEN (IF depth > 0 THEN <<TokError>> ELSE <<>>)
  ELSE IF pat[i] = "\\" THEN
         IF i = Len(pat) THEN <<TokError>>
         ELSE IF pat[i + 1] = "b" THEN <<TokBoundary>> \o sre_parse(pat, i + 2, depth)
         ELSE <<TokLiteral(pat[i + 1])>> \o sre_parse(pat, i + 2, depth)
  ELSE IF pat[i] = "." THEN <<TokAny>> \o sre_parse(pat, i + 1, depth)
  ELSE IF pat[i] = "(" THEN sre_parse(pat, i + 1, depth + 1)
  ELSE IF pat[i] = ")" THEN
         IF depth = 0 THEN <<TokError>> ELSE sre_parse(pat, i + 1, depth - 1)
  ELSE <<TokLiteral(pat[i])>> \o sre_parse(pat, i + 1, depth)

re_compile(pat) == sre_parse(pat, 1, 0)

compile_fails(toks) == \E i \in 1..Len(toks) : toks[i].kind = "error"

\* \b after pos characters of text: exactly one side is a word character
at_boundary(text, pos) ==
  (pos >= 1 /\ IsWordChar(text[pos])) # (pos < Len(text) /\ IsWordChar(text[pos + 1]))

\* the tokens from i on match text from offset pos on
RECURSIVE match_here(_, _, _, _)
match_here(toks, i, text, pos) ==
  IF i > Len(toks) THEN TRUE
  ELSE IF toks[i].kind = "boundary" THEN
         at_boundary(text, pos) /\ match_here(toks, i + 1, text, pos)
  ELSE IF toks[i].kind = "any" THEN
         pos < Len(text) /\ text[pos + 1] # "\n" /\ match_here(toks, i + 1, text, pos + 1)
  ELSE IF toks[i].kind = "literal" THEN
         pos < Len(text) /\ text[pos + 1] = toks[i].ch
           /\ match_here(toks, i + 1, text, pos + 1)
  ELSE FALSE

\* re.search(pattern, text) is not None
re_search(pat, text) ==
  LET toks == re_compile(pat)
  IN \E pos \in 0..Len(text) : match_here(toks, 1, text, pos)

(***************************************************************************)
(* classify (lines 32-38).  The result is [raised, val]: val is the        *)
(* FlagSet, a dict of category -> flag in the dictionary's order.          *)
(***************************************************************************)
phrase_pattern(p) == word_format(re_escape(p))

phrase_matches(p, text) == re_search(phrase_pattern(p), text)

\* classify leaving out the categories that have no phrases
classify_dropping(text, dictionaries) ==
  LET t == str_lower(py_str(text))
      kept == SelectSeq(dictionaries, LAMBDA e : e[2] # {})
  IN [raised |-> FALSE,
      val |-> [i \in 1..Len(kept) |->
                 <<kept[i][1], \E p \in kept[i][2] : phrase_matches(p, t)>>]]

\* classify searching the text as it was written
classify_case_sensitive(text, dictionaries) ==
  LET t == py_str(text)
  IN [raised |-> FALSE,
      val |-> [i \in 1..Len(dictionaries) |->
                 <<dictionaries[i][1],
                   \E p \in dictionaries[i][2] : phrase_matches(p, t)>>]]

classify(text, dictionaries) ==
  LET t == str_lower(py_str(text))
  IN [raised |-> \E i \in 1..Len(dictionaries) : \E p \in dictionaries[i][2] :
                    compile_fails(re_compile(phrase_pattern(p))),
      val |-> [i \in 1..Len(dictionaries) |->
                 <<dictionaries[i][1],
                   \E p \in dictionaries[i][2] : phrase_matches(p, t)>>]]

(***************************************************************************)
(* parse_dictionaries (lines 90-96).  dict_json holds the dictionary text  *)
(* as the value it denotes; an object is its members in the order          *)
(* written.  The result is [ok, val]: ok is FALSE where the try block      *)
(* raises and the handler reports the error and stops the run.             *)
(***************************************************************************)
keys_of(pairs) == { pairs[i][1] : i \in 1..Len(pairs) }

\* d[k] of a dict of pairs with distinct keys
lookup(pairs, k) == pairs[CHOOSE i \in 1..Len(pairs) : pairs[i][1] = k][2]

\* json.loads of an object: a repeated key keeps its first position and its
\* last value
RECURSIVE dict_from_members(_)
dict_from_members(members) ==
  IF members = <<>> THEN <<>>
  ELSE LET n == Len(members)
           front == dict_from_members(SubSeq(members, 1, n - 1))
           k == members[n][1]
       IN IF k \in keys_of(front)
          THEN [i \in 1..Len(front) |->
                  IF front[i][1] = k THEN <<k, members[n][2]>> ELSE front[i]]
          ELSE Append(front, members[n])

json_loads(j) ==
  IF j.kind = "dict" THEN PyDict(dict_from_members(j.val)) ELSE j

\* iter(v) succeeds: a list, a str (its characters) or a dict (its keys)
is_iterable(v) == v.kind \in {"list", "str", "dict"}

\* the values "for x in v" yields
iter_values(v) ==
  CASE v.kind = "list" -> Range(v.val)
    [] v.kind = "str" -> { PyStr(<<v.val[i]>>) : i \in 1..Len(v.val) }
    [] v.kind = "dict" -> { PyStr(k) : k \in keys_of(v.val) }

\* {str(x).lower() for x in v}
phrase_set(v) == { str_lower(py_str(x)) : x \in iter_values(v) }

parse_dictionaries(json_str) ==
  LET raw == json_loads(json_str)
  IN IF raw.kind = "invalid" THEN [ok |-> FALSE, val |-> <<>>]
     ELSE IF raw.kind # "dict" THEN [ok |-> FALSE, val |-> <<>>]
     ELSE IF \E i \in 1..Len(raw.val) : ~is_iterable(raw.val[i][2])
          THEN [ok |-> FALSE, val |-> <<>>]
     ELSE [ok |-> TRUE,
           val |-> [i \in 1..Len(raw.val) |->
                      <<raw.val[i][1], phrase_set(raw.val[i][2])>>]]

(***************************************************************************)
(* The script (lines 98-143).                                              *)
(***************************************************************************)
ProgressThreshold == 1000

FileNone == [kind |-> "none", frame |-> <<>>]
FileUnreadable == [kind |-> "unreadable", frame |-> <<>>]
\* a CSV file, by the DataFrame pd.read_csv makes of it: <<column, cells>> pairs
FileCsv(frame) == [kind |-> "csv", frame |-> frame]

\* the column check passing whatever the file holds
column_found_always(col, frame) == TRUE

\* statement_col in df.columns (line 109)
column_found(col, frame) == col \in keys_of(frame)

Max(a, b) == IF a >= b THEN a ELSE b

Bar(num, den, text) == [num |-> num, den |-> den, text |-> text]

total_rows == IF df = <<>> THEN 0 ELSE Len(df[1][2])

\* line 98
ParseDictionaries ==
  /\ pc = "parse"
  /\ LET r == parse_dictionaries(dict_json)
     IN IF r.ok
        THEN /\ user_dictionaries' = r.val
             /\ pc' = "read"
             /\ UNCHANGED messages
        ELSE /\ messages' = Append(messages, "Invalid JSON")
             /\ pc' = "stopped"
             /\ UNCHANGED user_dictionaries
  /\ UNCHANGED <<dict_json, uploaded_file, statement_col, df, flags, idx, my_bar>>

\* lines 102-107, and line 143 when nothing is uploaded
ReadCsv ==
  /\ pc = "read"
  /\ IF uploaded_file.kind = "none"
     THEN /\ messages' = Append(messages, "Upload a CSV file to get started.")
          /\ pc' = "idle"
          /\ UNCHANGED df
     ELSE IF uploaded_file.kind = "unreadable"
     THEN /\ messages' = Append(messages, "Unable to read CSV file")
          /\ pc' = "stopped"
          /\ UNCHANGED df
     ELSE /\ df' = uploaded_file.frame
          /\ pc' = "column"
          /\ UNCHANGED messages
  /\ UNCHANGED <<dict_json, uploaded_file, statement_col, user_dictionaries,
                 flags, idx, my_bar>>

\* lines 109-118
CheckColumn ==
  /\ pc = "column"
  /\ IF ~column_found(statement_col, df)
     THEN /\ messages' = Append(messages, "Column not found in file.")
          /\ pc' = "stopped"
          /\ UNCHANGED <<my_bar, flags, idx>>
     ELSE /\ my_bar' = Bar(0, 100, "Classifying rows")
          /\ flags' = <<>>
          /\ idx' = 0
          /\ pc' = "loop"
          /\ UNCHANGED messages
  /\ UNCHANGED <<dict_json, uploaded_file, statement_col, user_dictionaries, df>>

\* the loop putting each FlagSet in front of the list
ClassifyRowPrepending ==
  /\ pc = "loop"
  /\ idx < total_rows
  /\ flags' = <<classify(lookup(df, statement_col)[idx + 1], user_dictionaries).val>> \o flags
  /\ idx' = idx + 1
  /\ UNCHANGED <<pc, dict_json, uploaded_file, statement_col, user_dictionaries, df,
                 my_bar, messages>>

\* the loop using up the phrases it has searched for
ClassifyRowConsuming ==
  /\ pc = "loop"
  /\ idx < total_rows
  /\ flags' = Append(flags, classify(lookup(df, statement_col)[idx + 1], user_dictionaries).val)
  /\ user_dictionaries' =
       [i \in 1..Len(user_dictionaries) |-> <<user_dictionaries[i][1], {}>>]
  /\ idx' = idx + 1
  /\ UNCHANGED <<pc, dict_json, uploaded_file, statement_col, df, my_bar, messages>>

\* one iteration of the loop, lines 119-122
ClassifyRow ==
  /\ pc = "loop"
  /\ idx < total_rows
  /\ LET statement == lookup(df, statement_col)[idx + 1]
         r == classify(statement, user_dictionaries)
     IN IF r.raised
        THEN /\ pc' = "crashed"
             /\ UNCHANGED <<flags, idx, my_bar>>
        ELSE /\ flags' = Append(flags, r.val)
             /\ my_bar' = IF total_rows >= ProgressThreshold
                             /\ idx % Max(total_rows \div 100, 1) = 0
                          THEN Bar(idx, total_rows, "Classifying rows")
                          ELSE my_bar
             /\ idx' = idx + 1
             /\ pc' = "loop"
  /\ UNCHANGED <<dict_json, uploaded_file, statement_col, user_dictionaries, df, messages>>

\* the loop is exhausted: lines 123-128
Finish ==
  /\ pc = "loop"
  /\ idx = total_rows
  /\ my_bar' = Bar(100, 100, "Done!")
  /\ messages' = Append(messages, "Classification finished.")
  /\ pc' = "done"
  /\ UNCHANGED <<dict_json, uploaded_file, statement_col, user_dictionaries, df, flags, idx>>

Next == ParseDictionaries \/ ReadCsv \/ CheckColumn \/ ClassifyRow \/ Finish

(***************************************************************************)
(* Inputs.                                                                 *)
(***************************************************************************)
Strings(A, n) == UNION { [1..k -> A] : k \in 0..n }

SeqsUpTo(S, n) == UNION { [1..k -> S] : k \in 0..n }

\* get_default_dictionaries (lines 13-28)
get_default_dictionaries ==
  << << <<"u","r","g","e","n","c","y","_","m","a","r","k","e","t","i","n","g">>,
   { <<"l","i","m","i","t","e","d">>,
     <<"l","i","m","i","t","e","d"," ","t","i","m","e">>,
     <<"l","i","m","i","t","e","d"," ","r","u","n">>,
     <<"l","i","m","i","t","e","d"," ","e","d","i","t","i","o","n">>,
     <<"o","r","d","e","r"," ","n","o","w">>,
     <<"l","a","s","t"," ","c","h","a","n","c","e">>,
     <<"h","u","r","r","y">>,
     <<"w","h","i","l","e"," ","s","u","p","p","l","i","e","s"," ","l","a","s","t">>,
     <<"b","e","f","o","r","e"," ","t","h","e","y","'","r","e"," ","g","o","n","e">>,
     <<"s","e","l","l","i","n","g"," ","o","u","t">>,
     <<"s","e","l","l","i","n","g"," ","f","a","s","t">>,
     <<"a","c","t"," ","n","o","w">>,
     <<"d","o","n","'","t"," ","w","a","i","t">>,
     <<"t","o","d","a","y"," ","o","n","l","y">>,
     <<"e","x","p","i","r","e","s"," ","s","o","o","n">>,
     <<"f","i","n","a","l"," ","h","o","u","r","s">>,
     <<"a","l","m","o","s","t"," ","g","o","n","e">> } >>,
     << <<"e","x","c","l","u","s","i","v","e","_","m","a","r","k","e","t","i","n","g">>,
   { <<"e","x","c","l","u","s","i","v","e">>,
     <<"e","x","c","l","u","s","i","v","e","l","y">>,
     <<"e","x","c","l","u","s","i","v","e"," ","o","f","f","e","r">>,
     <<"e","x","c","l","u","s","i","v","e"," ","d","e","a","l">>,
     <<"m","e","m","b","e","r","s"," ","o","n","l","y">>,
     <<"v","i","p">>,
     <<"s","p","e","c","i","a","l"," ","a","c","c","e","s","s">>,
     <<"i","n","v","i","t","a","t","i","o","n"," ","o","n","l","y">>,
     <<"p","r","e","m","i","u","m">>,
     <<"p","r","i","v","i","l","e","g","e","d">>,
     <<"l","i","m","i","t","e","d"," ","a","c","c","e","s","s">>,
     <<"s","e","l","e","c","t"," ","c","u","s","t","o","m","e","r","s">>,
     <<"i","n","s","i","d","e","r">>,
     <<"p","r","i","v","a","t","e"," ","s","a","l","e">>,
     <<"e","a","r","l","y"," ","a","c","c","e","s","s">> } >> >>

\* sorted(list(v)) of line 78, up to the order of the list
RECURSIVE list_of(_)
list_of(S) ==
  IF S = {} THEN <<>>
  ELSE LET x == CHOOSE x \in S : TRUE IN <<PyStr(x)>> \o list_of(S \ {x})

\* the text the editor starts with (lines 76-81), as the value it denotes
default_dictionary_json ==
  PyDict([i \in 1..Len(get_default_dictionaries) |->
            <<get_default_dictionaries[i][1],
              PyList(list_of(get_default_dictionaries[i][2]))>>])

C1Name == <<"c","1">>
C2Name == <<"c","2">>
CategoryNames == {C1Name, C2Name}

ColumnNames == {"Statement", "Text"}

\* the characters of the enumerated texts and phrases
Alphabet == {"a", "A", " ", ".", "("}

\* texts of the documented examples
ExampleTexts ==
  { <<"L","i","m","i","t","e","d"," ","T","i","m","e"," ","O","f","f","e","r","!">>,
    <<"J","o","i","n"," ","o","u","r"," ","V","I","P"," ","c","l","u","b">>,
    <<"N","o","t","h","i","n","g"," ","s","p","e","c","i","a","l"," ","h","e","r","e">>,
    <<"i","n","v","i","t","e"," ","t","h","e"," ","v","i","p","s","t","e","r"," ","c","r","e","w">>,
    <<"t","h","i","s"," ","i","s"," ","a"," ","v","i","p"," ","e","v","e","n","t">>,
    <<"g","e","t"," ","5","0","%"," ","o","f","f"," ","t","o","d","a","y">>,
    <<"i","s"," ","l","i","m","i","t","e","d",".">>,
    <<"a","b","c">>,
    <<"5","0","%","o","f","f">>,
    <<"s","a","l","e",":"," ","5","0","%"," ","o","f","f">> }

ExampleDictionaries ==
  { PyDict(<< <<<<"u","r","g","e","n","c","y","_","m","a","r","k","e","t","i","n","g">>,
                PyList(<<PyStr(<<"l","i","m","i","t","e","d"," ","t","i","m","e">>), PyStr(<<"h","u","r","r","y">>)>>)>>,
              <<<<"e","x","c","l","u","s","i","v","e","_","m","a","r","k","e","t","i","n","g">>,
                PyList(<<PyStr(<<"V","I","P">>), PyStr(<<"e","x","c","l","u","s","i","v","e">>)>>)>> >>),
    PyDict(<< <<C1Name, PyList(<<PyStr(<<"5","0","%"," ","o","f","f">>), PyStr(<<"a",".","c">>)>>)>>,
              <<C2Name, PyList(<<PyStr(<<"5","0","%">>)>>)>> >>) }

OneRowFile(t) == FileCsv(<< <<"Statement", <<PyStr(t)>> >> >>)

\* the scalars of a collection of phrases
Elements == { PyStr(<<"a">>), PyStr(<<" ","A">>), PyInt(5), PyNone }

\* what a category name can be mapped to
CategoryValues ==
  { PyList(l) : l \in SeqsUpTo(Elements, MaxItems) }
    \cup { PyStr(<<"a","b">>), PyInt(5), PyNone, PyBool(TRUE),
           PyDict(<< <<C1Name, PyInt(5)>> >>) }

\* the objects with distinct category names
Objects ==
  { PyDict(<<>>) }
    \cup { PyDict(<< <<k, v>> >>) : k \in CategoryNames, v \in CategoryValues }
    \cup { PyDict(<< <<k[1], v>>, <<k[2], w>> >>) :
             k \in { <<C1Name, C2Name>>, <<C2Name, C1Name>> },
             v \in CategoryValues, w \in CategoryValues }

DictionaryTexts ==
  Objects \cup { JsonInvalid, PyNone, PyInt(5), PyStr(<<"a">>),
                 PyList(<<PyStr(<<"a">>)>>),
                 PyDict(<< <<C1Name, PyList(<<PyStr(<<"a">>)>>)>>,
                           <<C1Name, PyList(<<PyStr(<<"A">>), PyStr(<<"a">>)>>)>> >>) }

DictionarySamples ==
  { PyDict(<< <<C1Name, PyList(<<PyStr(<<"a">>), PyStr(<<"A"," ","b">>)>>)>>,
              <<C2Name, PyList(<<>>)>> >>),
    PyDict(<< <<C1Name, PyList(<<PyStr(<<"n","a","n">>)>>)>>,
              <<C2Name, PyList(<<PyInt(5), PyBool(TRUE)>>)>> >>),
    PyDict(<< <<C1Name, PyStr(<<"a","b">>)>> >>),
    JsonInvalid }

\* the cells pd.read_csv makes
RecordValues ==
  { PyStr(<<>>), PyStr(<<"a">>), PyStr(<<"x"," ","A"," ","B">>), PyNaN, PyInt(5), PyBool(TRUE) }

Frames ==
  { << <<c, rows>> >> : c \in ColumnNames, rows \in SeqsUpTo(RecordValues, MaxRows) }

Files == { FileNone, FileUnreadable } \cup { FileCsv(f) : f \in Frames }

FileSamples ==
  { FileCsv(<< <<"Text", <<PyStr(<<"a">>)>> >> >>),
    FileCsv(<< <<"Statement", <<PyStr(<<"A"," ","b">>), PyInt(5)>> >> >>) }

\* a file long enough for the loop to report progress (line 121)
LargeFile ==
  FileCsv(<< <<"Statement",
               [i \in 1..ProgressThreshold |->
                  IF i % 3 = 0 THEN PyStr(<<"a">>)
                  ELSE IF i % 3 = 1 THEN PyNaN ELSE PyStr(<<"A"," ","b">>)]>> >>)

LargeDictionary ==
  PyDict(<< <<C1Name, PyList(<<PyStr(<<"a">>)>>)>>, <<C2Name, PyList(<<>>)>> >>)

\* files of the documented example records
ExampleFiles ==
  { FileCsv(<< <<"Statement",
                 <<PyStr(<<"L","i","m","i","t","e","d"," ","T","i","m","e"," ","O","f","f","e","r","!">>),
                   PyStr(<<"J","o","i","n"," ","o","u","r"," ","V","I","P"," ","c","l","u","b">>),
                   PyStr(<<"N","o","t","h","i","n","g"," ","s","p","e","c","i","a","l"," ","h","e","r","e">>)>> >> >>),
    FileCsv(<< <<"Statement",
                 <<PyStr(<<"i","n","v","i","t","e"," ","t","h","e"," ","v","i","p","s","t","e","r"," ","c","r","e","w">>),
                   PyStr(<<"t","h","i","s"," ","i","s"," ","a"," ","v","i","p"," ","e","v","e","n","t">>),
                   PyStr(<<"i","s"," ","l","i","m","i","t","e","d",".">>), PyNaN>> >> >>) }

InitRest ==
  /\ pc = "parse"
  /\ user_dictionaries = <<>>
  /\ df = <<>>
  /\ flags = <<>>
  /\ idx = 0
  /\ my_bar = Bar(0, 0, "")
  /\ messages = <<>>

Init ==
  /\ \/ /\ dict_json \in DictionaryTexts
        /\ uploaded_file \in FileSamples
        /\ statement_col = "Statement"
     \/ /\ dict_json \in DictionarySamples
        /\ uploaded_file \in Files
        /\ statement_col \in ColumnNames
     \/ /\ dict_json = default_dictionary_json
        /\ uploaded_file \in ExampleFiles
        /\ statement_col = "Statement"
  /\ InitRest

InitMatch ==
  /\ \/ /\ \E p \in Strings(Alphabet, MaxPhraseLen) :
             dict_json = PyDict(<< <<C1Name, PyList(<<PyStr(p)>>)>> >>)
        /\ \E t \in Strings(Alphabet, MaxTextLen) : uploaded_file = OneRowFile(t)
     \/ /\ dict_json \in ExampleDictionaries
        /\ \E t \in ExampleTexts : uploaded_file = OneRowFile(t)
  /\ statement_col = "Statement"
  /\ InitRest

InitLarge ==
  \/ Init
  \/ /\ dict_json = LargeDictionary
     /\ uploaded_file = LargeFile
     /\ statement_col = "Statement"
     /\ InitRest

Spec == Init /\ [][Next]_vars

SpecLarge == InitLarge /\ [][Next]_vars

SpecMatch == InitMatch /\ [][Next]_vars

(***************************************************************************)
(* Properties.                                                             *)
(***************************************************************************)
\* a dict of pairs as the mapping it is
AsMap(pairs) == [k \in keys_of(pairs) |-> lookup(pairs, k)]

\* the cells of the text column
Rows == lookup(df, statement_col)

\* C3: in the loop and after it, flags is one FlagSet per processed row in
\* input order: entry i is classify(row i, dictionary); when the loop has
\* finished there is exactly one entry per row
FlagsAlignedWithRows ==
  pc \in {"loop", "done"} =>
    LET rows == Rows
    IN /\ Len(flags) = idx
       /\ idx <= Len(rows)
       /\ \A i \in 1..Len(flags) : flags[i] = classify(rows[i], user_dictionaries).val
       /\ pc = "done" => Len(flags) = Len(rows)

\* a loop that reported progress has finished
FlagsAlignedWitness ==
  /\ pc = "done"
  /\ Len(flags) >= ProgressThreshold
  /\ flags[1] # flags[3]

\* C2: every FlagSet in flags has exactly the dictionary's category names as
\* its keys, each once, whatever the flags and the phrase sets are
FlagSetKeysComplete ==
  \A r \in 1..Len(flags) :
    /\ keys_of(flags[r]) = keys_of(user_dictionaries)
    /\ Len(flags[r]) = Cardinality(keys_of(user_dictionaries))

FlagSetKeysWitness ==
  /\ pc = "done"
  /\ flags # <<>>
  /\ \E m \in 1..Len(user_dictionaries) :
       user_dictionaries[m][2] = {} /\ ~lookup(flags[1], user_dictionaries[m][1])

ParsedOk == parse_dictionaries(dict_json).ok

ColumnPresent ==
  uploaded_file.kind = "csv" /\ statement_col \in keys_of(uploaded_file.frame)

\* C4: rows are classified only when the dictionary text parsed, the file was
\* read and the text column is in it; when one of them fails the run stops
\* with one error message and no FlagSet
ClassifyOnlyAfterChecks ==
  /\ (flags # <<>> \/ pc \in {"loop", "done"}) => (ParsedOk /\ ColumnPresent)
  /\ (pc # "parse" /\ ~ParsedOk) =>
       (pc = "stopped" /\ messages = <<"Invalid JSON">>)
  /\ (pc \notin {"parse", "read"} /\ ParsedOk /\ uploaded_file.kind = "unreadable") =>
       (pc = "stopped" /\ messages = <<"Unable to read CSV file">>)
  /\ (pc \notin {"parse", "read", "column"} /\ ParsedOk
        /\ uploaded_file.kind = "csv" /\ ~ColumnPresent) =>
       (pc = "stopped" /\ messages = <<"Column not found in file.">>)
  /\ pc = "stopped" => (flags = <<>> /\ Len(messages) = 1)

ClassifyOnlyAfterChecksWitness ==
  /\ pc = "stopped"
  /\ ParsedOk
  /\ uploaded_file.kind = "csv"
  /\ uploaded_file.frame[1][2] # <<>>
  /\ ~ColumnPresent

EqualRecordsEqualFlags ==
  \A i \in 1..Len(flags) : \A j \in 1..Len(flags) :
    Rows[i] = Rows[j] => flags[i] = flags[j]

\* C10: once built, the dictionary is changed by no step of the run, and two
\* equal records of a batch have equal FlagSets
DictionaryFixed ==
  /\ []EqualRecordsEqualFlags
  /\ [][pc # "parse" => user_dictionaries' = user_dictionaries]_vars

DictionaryFixedWitness ==
  /\ pc = "done"
  /\ Len(flags) >= 3
  /\ Rows[1] = Rows[3]
  /\ Rows[1] # Rows[2]
  /\ \E m \in 1..Len(flags[3]) : flags[3][m][2]

\* the upper-case form of a letter
char_upper(c) ==
  IF \E i \in 1..26 : LowerChars[i] = c
  THEN UpperChars[CHOOSE i \in 1..26 : LowerChars[i] = c]
  ELSE c

FlipCase(c) == IF char_lower(c) # c THEN char_lower(c) ELSE char_upper(c)

FlipAt(s, i) == [s EXCEPT ![i] = FlipCase(s[i])]

\* the text with the case of one character changed
TextCaseVariants(s) == { FlipAt(s, i) : i \in 1..Len(s) }

\* the dictionary text with the case of one character of one phrase changed
DictionaryCaseVariants(j) ==
  UNION { UNION { { [j EXCEPT !.val[m][2].val[k].val = FlipAt(@, i)] :
                      i \in 1..Len(j.val[m][2].val[k].val) } :
                  k \in 1..Len(j.val[m][2].val) } :
          m \in 1..Len(j.val) }

\* the dictionary text with its categories in the opposite order
Reordered(j) == PyDict([m \in 1..Len(j.val) |-> j.val[Len(j.val) + 1 - m]])

\* the flags of one text under one dictionary text
EndToEnd(t, j) == AsMap(classify(PyStr(t), parse_dictionaries(j).val).val)

\* the phrases written in a dictionary text
WrittenPhrases(j) ==
  UNION { { j.val[m][2].val[k].val : k \in 1..Len(j.val[m][2].val) } : m \in 1..Len(j.val) }

\* C8: the FlagSet of a record is the same when the case of a letter of the
\* record, or of a phrase of the dictionary text, is changed, and when the
\* categories are written in another order
CaseInsensitive ==
  pc = "done" =>
    \A r \in 1..Len(flags) :
      LET t == Rows[r].val
          f == AsMap(flags[r])
      IN /\ \A u \in TextCaseVariants(t) : EndToEnd(u, dict_json) = f
         /\ \A j \in DictionaryCaseVariants(dict_json) :
              parse_dictionaries(j).ok /\ EndToEnd(t, j) = f
         /\ EndToEnd(t, Reordered(dict_json)) = f

CaseInsensitiveWitness ==
  /\ pc = "done"
  /\ flags # <<>>
  /\ Rows[1].val # str_lower(Rows[1].val)
  /\ \E p \in WrittenPhrases(dict_json) : p # str_lower(p)
  /\ \E m \in 1..Len(flags[1]) : flags[1][m][2]

\* p is in t as a contiguous sequence of characters
LiteralOccurs(p, t) ==
  \E i \in 0..(Len(t) - Len(p)) : SubSeq(t, i + 1, i + Len(p)) = p

PercentOff == <<"5","0","%"," ","o","f","f">>

GetPercentOffToday == <<"g","e","t"," ","5","0","%"," ","o","f","f"," ","t","o","d","a","y">>

\* C9: classify never fails, a category is flagged only when one of its
\* phrases is in the lowercased text character for character, and "50% off"
\* matches "get 50% off today"
LiteralMatching ==
  /\ pc # "crashed"
  /\ \A r \in 1..Len(flags) : \A m \in 1..Len(flags[r]) :
       LET t == str_lower(py_str(Rows[r]))
           phrases == lookup(user_dictionaries, flags[r][m][1])
       IN /\ flags[r][m][2] => \E p \in phrases : LiteralOccurs(p, t)
          /\ (PercentOff \in phrases /\ t = GetPercentOffToday) => flags[r][m][2]

LiteralMatchingWitness ==
  /\ pc = "done"
  /\ flags # <<>>
  /\ \E m \in 1..Len(flags[1]) :
       /\ flags[1][m][2]
       /\ \A p \in user_dictionaries[m][2] : Range(p) \cap {".", "(", "%"} # {}

\* p is in t with no word character next to its first and last characters
WholeOccurs(p, t) ==
  \E i \in 0..(Len(t) - Len(p)) :
    /\ SubSeq(t, i + 1, i + Len(p)) = p
    /\ (i = 0 \/ ~IsWordChar(t[i]))
    /\ (i + Len(p) = Len(t) \/ ~IsWordChar(t[i + Len(p) + 1]))

\* C1: a category is flagged iff one of its phrases is in the lowercased text
\* with no word character next to its first and last characters, whatever
\* characters the phrase begins and ends with
WholePhraseMatching ==
  \A r \in 1..Len(flags) : \A m \in 1..Len(flags[r]) :
    LET t == str_lower(py_str(Rows[r]))
        phrases == lookup(user_dictionaries, flags[r][m][1])
    IN (\A p \in phrases : p # <<>>) =>
         (flags[r][m][2] <=> \E p \in phrases : WholeOccurs(p, t))

\* the dictionary text is an object whose values are all collections
WellShaped(j) ==
  /\ j.kind = "dict"
  /\ \A m \in 1..Len(j.val) : j.val[m][2].kind = "list"

\* C5: a dictionary text that is not an object of collections stops the run
MalformedRejected ==
  (pc # "parse" /\ ~WellShaped(dict_json)) => (pc = "stopped" /\ flags = <<>>)

HasWordChar(p) == \E i \in 1..Len(p) : IsWordChar(p[i])

\* C6: a record that is not a string, or is empty or missing, is classified
\* without failing and as the empty string: every flag is false when every
\* phrase has a word character
BlankRecordsAllFalse ==
  /\ pc # "crashed"
  /\ \A r \in 1..Len(flags) :
       (/\ Rows[r].kind # "str" \/ Rows[r].val = <<>>
        /\ \A m \in 1..Len(user_dictionaries) :
             \A p \in user_dictionaries[m][2] : HasWordChar(p))
       => /\ flags[r] = classify(PyStr(<<>>), user_dictionaries).val
          /\ \A m \in 1..Len(flags[r]) : ~flags[r][m][2]

\* whitespace, as str.strip() takes it
IsSpace(c) == c \in {" ", "\t", "\n", "\r"}

\* the text without the whitespace around it
RECURSIVE str_strip(_)
str_strip(s) ==
  IF s = <<>> THEN s
  ELSE IF IsSpace(s[1]) THEN str_strip(Tail(s))
  ELSE IF IsSpace(s[Len(s)]) THEN str_strip(SubSeq(s, 1, Len(s) - 1))
  ELSE s

\* C7: every phrase of a parsed dictionary is lowercased and has no
\* whitespace around it, and the categories are the keys of the text
PhrasesCanonical ==
  (pc # "parse" /\ ParsedOk) =>
    /\ keys_of(user_dictionaries) = keys_of(dict_json.val)
    /\ \A m \in 1..Len(user_dictionaries) : \A p \in user_dictionaries[m][2] :
         p = str_lower(p) /\ p = str_strip(p)

====
